---------------------------- MODULE Spec2Model ----------------------------
(***************************************************************************)
(* Model of the Text-Fx Figma plugin (src/code.ts): the handling of one    *)
(* 'create-component' message in the figma editor.                         *)
(*                                                                         *)
(*   createAnimationComponent -> createAnimationVariants                   *)
(*        -> calculateFrameCount, createTextNodeForFrame (one per frame)   *)
(*     -> figma.combineAsVariants -> setupSimplePrototyping (one reaction  *)
(*        per variant) -> figma.ui.postMessage('component-created')        *)
(*                                                                         *)
(* Texts are sequences of one-character strings.  JavaScript numbers are   *)
(* modelled as exact rationals <<n, d>> in lowest terms (d > 0), with      *)
(* <<0, 0>> for NaN; IEEE-754 rounding is not modelled.  Every call into   *)
(* the Figma host may throw: each such call is a separate failing branch.  *)
(***************************************************************************)
EXTENDS Integers, Sequences, FiniteSets, TLC

\* Longest text the model draws.
MaxLen == 3

\* Largest number of 'selectionchange' events of a run.
MaxEvents == 4

\* The characters texts are built from; " " is the separator of split(' ').
Chars == {"a", "b", " "}

\* The styles of the UI, and one style calculateFrameCount does not know.
KnownStyles == {"typing", "fade-in", "fade-out", "slide-left", "slide-right",
                "slide-up", "slide-down", "scale", "rotate"}
Styles == KnownStyles \cup {"bounce"}

TypeBys == {"letter", "word"}
Directions == {"forward", "backwards"}

\* animation.duration in milliseconds, as sent by the UI (not validated).
Durations == {0, 100, 120, 500, 900, 3000}

RECURSIVE TextsOfLen(_)
TextsOfLen(n) ==
  IF n = 0 THEN {<<>>}
  ELSE {<<c>> \o t : c \in Chars, t \in TextsOfLen(n - 1)}

Texts == UNION {TextsOfLen(n) : n \in 0..MaxLen}

-----------------------------------------------------------------------------
(* JavaScript numbers as exact rationals *)

Abs(x) == IF x < 0 THEN -x ELSE x

RECURSIVE Gcd(_, _)
Gcd(a, b) == IF b = 0 THEN a ELSE Gcd(b, a % b)

NaN == <<0, 0>>
IsNaN(r) == r[2] = 0

\* n / d as a JavaScript number: 0/0 is NaN.
Rat(n, d) ==
  IF d = 0 THEN NaN
  ELSE LET g == Gcd(Abs(n), Abs(d))
           s == IF d < 0 THEN -1 ELSE 1
       IN  <<(s * n) \div g, (s * d) \div g>>

Num(k) == <<k, 1>>

RMul(x, y) == IF IsNaN(x) \/ IsNaN(y) THEN NaN ELSE Rat(x[1] * y[1], x[2] * y[2])
RDiv(x, y) == IF IsNaN(x) \/ IsNaN(y) THEN NaN ELSE Rat(x[1] * y[2], x[2] * y[1])
RAdd(x, y) ==
  IF IsNaN(x) \/ IsNaN(y) THEN NaN
  ELSE Rat(x[1] * y[2] + y[1] * x[2], x[2] * y[2])
RSub(x, y) ==
  IF IsNaN(x) \/ IsNaN(y) THEN NaN
  ELSE Rat(x[1] * y[2] - y[1] * x[2], x[2] * y[2])

\* Comparisons with NaN are false.
RLt(x, y) == ~IsNaN(x) /\ ~IsNaN(y) /\ x[1] * y[2] < y[1] * x[2]
RLe(x, y) == ~IsNaN(x) /\ ~IsNaN(y) /\ x[1] * y[2] <= y[1] * x[2]
RGt(x, y) == RLt(y, x)
RGe(x, y) == RLe(y, x)

\* Math.min / Math.max: NaN if either argument is NaN.
RMin(x, y) == IF IsNaN(x) \/ IsNaN(y) THEN NaN ELSE IF RLe(x, y) THEN x ELSE y
RMax(x, y) == IF IsNaN(x) \/ IsNaN(y) THEN NaN ELSE IF RGe(x, y) THEN x ELSE y

\* Math.floor: NaN stays NaN.
RFloor(x) == IF IsNaN(x) THEN NaN ELSE Num(x[1] \div x[2])

IMin(a, b) == IF a <= b THEN a ELSE b
IMax(a, b) == IF a >= b THEN a ELSE b

-----------------------------------------------------------------------------
(* JavaScript string and array primitives *)

\* ToIntegerOrInfinity of an index argument: NaN becomes 0.
ToIndex(x) == IF IsNaN(x) THEN 0 ELSE x[1] \div x[2]

Clamp(k, n) == IMax(0, IMin(k, n))

\* String.prototype.substring(start, end): both clamped to 0..length and
\* swapped when start > end.
Substring(t, start, end) ==
  LET s == Clamp(start, Len(t))
      e == Clamp(end, Len(t))
  IN  SubSeq(t, IMin(s, e) + 1, IMax(s, e))

\* substring(start) with end omitted.
SubstringFrom(t, start) == Substring(t, start, Len(t))

\* Array.prototype.slice(start, end) for start, end >= 0.
Slice(ws, start, end) ==
  SubSeq(ws, IMin(start, Len(ws)) + 1, IMin(end, Len(ws)))

SliceFrom(ws, start) == Slice(ws, start, Len(ws))

\* String.prototype.split(' '): the pieces between single spaces; the empty
\* text gives one empty piece.
RECURSIVE Split(_)
Split(t) ==
  IF t = <<>> THEN << <<>> >>
  ELSE LET r == Split(Tail(t))
       IN  IF Head(t) = " " THEN << <<>> >> \o r
           ELSE << <<Head(t)>> \o r[1] >> \o Tail(r)

\* Array.prototype.join(' ').
RECURSIVE Join(_)
Join(ws) ==
  IF ws = <<>> THEN <<>>
  ELSE IF Len(ws) = 1 THEN ws[1]
  ELSE ws[1] \o <<" ">> \o Join(Tail(ws))

RECURSIVE TrimStart(_)
TrimStart(t) ==
  IF t # <<>> /\ Head(t) = " " THEN TrimStart(Tail(t)) ELSE t

RECURSIVE TrimEnd(_)
TrimEnd(t) ==
  IF t # <<>> /\ t[Len(t)] = " " THEN TrimEnd(SubSeq(t, 1, Len(t) - 1)) ELSE t

\* String.prototype.trim().
Trim(t) == TrimEnd(TrimStart(t))

-----------------------------------------------------------------------------
(* Frame count *)

\* Mutant of calculateFrameCount: the reveal unit is ignored and every style
\* but scale counts words.
calculateFrameCountByWords(style, typeBy, text) ==
  IF style = "scale" THEN 2 ELSE Len(Split(text)) + 1

\* calculateFrameCount(style, typeBy, duration, text); duration is unused.
calculateFrameCount(style, typeBy, text) ==
  CASE style = "typing" ->
         IF typeBy = "letter" THEN Len(text) + 1 ELSE Len(Split(text)) + 1
    [] style \in {"fade-in", "fade-out"} ->
         IF typeBy = "letter" THEN Len(text) + 1 ELSE Len(Split(text)) + 1
    [] style \in {"slide-left", "slide-right", "slide-up", "slide-down"} ->
         IF typeBy = "letter" THEN Len(text) + 1 ELSE Len(Split(text)) + 1
    [] style = "scale" -> 2
    [] style = "rotate" ->
         IF typeBy = "letter" THEN Len(text) + 1 ELSE Len(Split(text)) + 1
    [] OTHER -> Len(Split(text)) + 1

-----------------------------------------------------------------------------
(* Frame contents.  A text node is [characters, opacity, fontSize]. *)

\* figma.createText(): an empty, fully opaque text node.
NewTextNode == [characters |-> <<>>, opacity |-> Num(1), fontSize |-> 12]

\* frameIndex / (totalFrames - 1)
Progress(frameIndex, totalFrames) == Rat(frameIndex, totalFrames - 1)

\* Mutant of applyTypingEffect: backwards keeps a prefix of the text (what
\* is left after dropping frameIndex units from the end) instead of the suffix.
applyTypingEffectPrefix(textNode, text, typeBy, frameIndex, direction) ==
  IF typeBy = "letter" THEN
    LET visibleLength == IF direction = "forward" THEN frameIndex
                         ELSE IMax(0, Len(text) - frameIndex)
    IN  [textNode EXCEPT !.characters = Substring(text, 0, visibleLength)]
  ELSE
    LET words == Split(text) IN
    IF frameIndex = 0 THEN [textNode EXCEPT !.characters = <<>>]
    ELSE IF direction = "forward" THEN
      [textNode EXCEPT !.characters = Join(Slice(words, 0, frameIndex))]
    ELSE
      [textNode EXCEPT
         !.characters = Join(Slice(words, 0, IMax(0, Len(words) - frameIndex)))]

applyTypingEffect(textNode, text, typeBy, frameIndex, direction) ==
  IF typeBy = "letter" THEN
    IF direction = "forward" THEN
      [textNode EXCEPT !.characters = Substring(text, 0, frameIndex)]
    ELSE
      LET visibleLength == frameIndex IN
      IF visibleLength = 0 THEN [textNode EXCEPT !.characters = <<>>]
      ELSE LET startIndex == IMax(0, Len(text) - visibleLength)
           IN  [textNode EXCEPT !.characters = SubstringFrom(text, startIndex)]
  ELSE
    LET words == Split(text) IN
    IF frameIndex = 0 THEN [textNode EXCEPT !.characters = <<>>]
    ELSE IF direction = "forward" THEN
      [textNode EXCEPT !.characters = Join(Slice(words, 0, frameIndex))]
    ELSE
      LET wordsToShow == frameIndex
          totalWords == Len(words)
          startWordIndex == IMax(0, totalWords - wordsToShow)
      IN  [textNode EXCEPT !.characters = Join(SliceFrom(words, startWordIndex))]

applyLetterOpacity(text, frameIndex, totalFrames) ==
  LET progress == Progress(frameIndex, totalFrames)
      letterProgress == RMin(RMul(progress, Num(Len(text))), Num(Len(text)))
  IN  IF RGe(letterProgress, Num(frameIndex)) THEN Num(1) ELSE Rat(3, 10)

applySlideEffect(textNode, progress, typeBy) ==
  IF typeBy = "letter" THEN
    LET text == textNode.characters
        visibleLength == RFloor(RMul(progress, Num(Len(text))))
    IN  [textNode EXCEPT !.characters = Substring(text, 0, ToIndex(visibleLength))]
  ELSE textNode

\* The loops that build visibleText: text[i] for the 0-based indices i of
\* shown (those with shouldShow), a space elsewhere.
Masked(text, shown) ==
  [i \in 1..Len(text) |-> IF (i - 1) \in shown THEN text[i] ELSE " "]

\* The 0-based indices of a sequence.
Indices(seq) == 0..(Len(seq) - 1)

applyLetterRotateEffect(textNode, text, frameIndex, totalFrames, direction) ==
  LET progress == Progress(frameIndex, totalFrames)
      len == Len(text)
      node == [textNode EXCEPT !.fontSize = 16]
  IN
  IF direction = "forward" THEN
    IF RLt(progress, Rat(1, 2)) THEN
      LET visibleCount == RFloor(RMul(RMul(progress, Num(2)), Num(len)))
          centerIndex == len \div 2
          shouldShow(i) == RLe(Num(Abs(i - centerIndex) * 2), visibleCount)
          shown == {i \in Indices(text) : shouldShow(i)}
      IN  [node EXCEPT !.characters = Masked(text, shown),
                       !.opacity = RAdd(Rat(3, 10), RMul(progress, Rat(14, 10)))]
    ELSE
      LET fillProgress == RMul(RSub(progress, Rat(1, 2)), Num(2))
          totalVisible ==
            RFloor(RAdd(RMul(Rat(1, 2), Num(len)),
                        RMul(RMul(fillProgress, Rat(1, 2)), Num(len))))
          shouldShow(i) == RLt(Num((i + (len \div 2)) % len), totalVisible)
          shown == {i \in Indices(text) : shouldShow(i)}
      IN  [node EXCEPT !.characters = Masked(text, shown),
                       !.opacity = RMin(Num(1), RAdd(Rat(8, 10),
                                                     RMul(fillProgress, Rat(4, 10))))]
  ELSE
    LET reverseProgress == RSub(Num(1), progress) IN
    IF RGt(reverseProgress, Rat(1, 2)) THEN
      [node EXCEPT !.characters = text, !.opacity = reverseProgress]
    ELSE
      LET fadeProgress == RMul(reverseProgress, Num(2))
          centerIndex == len \div 2
          shouldShow(i) ==
            RLe(Num(Abs(i - centerIndex) * 2), RMul(fadeProgress, Num(len)))
          shown == {i \in Indices(text) : shouldShow(i)}
      IN  [node EXCEPT !.characters = Masked(text, shown),
                       !.opacity = RMax(Rat(2, 10), fadeProgress)]

\* words.map((word, index) => ... ? word : ''), kept being the 0-based
\* indices whose word is kept.
MapWords(words, kept) ==
  [i \in 1..Len(words) |-> IF (i - 1) \in kept THEN words[i] ELSE <<>>]

applyWordRotateEffect(textNode, text, frameIndex, totalFrames, direction) ==
  LET progress == Progress(frameIndex, totalFrames)
      words == Split(text)
      node == [textNode EXCEPT !.fontSize = 16]
      centerIndex == Len(words) \div 2
      maxDistance == Len(words) \div 2
  IN
  IF direction = "forward" THEN
    IF RLt(progress, Rat(3, 10)) THEN
      LET keep(index) == index = centerIndex
          kept == {index \in Indices(words) : keep(index)}
      IN  [node EXCEPT !.characters = Trim(Join(MapWords(words, kept))),
                       !.opacity = RAdd(Rat(4, 10), RMul(progress, Num(2)))]
    ELSE IF RLt(progress, Rat(7, 10)) THEN
      LET spiralProgress == RDiv(RSub(progress, Rat(3, 10)), Rat(4, 10))
          currentDistance == RFloor(RMul(spiralProgress, Num(maxDistance)))
          keep(index) == RLe(Num(Abs(index - centerIndex)), currentDistance)
          kept == {index \in Indices(words) : keep(index)}
      IN  [node EXCEPT !.characters = Trim(Join(MapWords(words, kept))),
                       !.opacity = RAdd(Rat(6, 10), RMul(spiralProgress, Rat(3, 10)))]
    ELSE
      [node EXCEPT !.characters = text,
                   !.opacity = RMin(Num(1),
                                    RAdd(Rat(9, 10),
                                         RMul(RSub(progress, Rat(7, 10)), Num(2))))]
  ELSE
    LET reverseProgress == RSub(Num(1), progress) IN
    IF RGt(reverseProgress, Rat(7, 10)) THEN
      [node EXCEPT !.characters = text,
                   !.opacity = RAdd(reverseProgress, Rat(1, 10))]
    ELSE IF RGt(reverseProgress, Rat(3, 10)) THEN
      LET spiralProgress == RDiv(RSub(reverseProgress, Rat(3, 10)), Rat(4, 10))
          keepDistance == RFloor(RMul(spiralProgress, Num(maxDistance)))
          keep(index) == RLe(Num(Abs(index - centerIndex)), keepDistance)
          kept == {index \in Indices(words) : keep(index)}
      IN  [node EXCEPT !.characters = Trim(Join(MapWords(words, kept))),
                       !.opacity = RMax(Rat(3, 10), RMul(spiralProgress, Rat(12, 10)))]
    ELSE
      LET finalProgress == RDiv(reverseProgress, Rat(3, 10)) IN
      IF RGt(finalProgress, Rat(1, 2)) /\ Len(words) > 0 THEN
        [node EXCEPT !.characters = words[(Len(words) \div 2) + 1],
                     !.opacity = finalProgress]
      ELSE
        [node EXCEPT !.characters = <<>>, !.opacity = Num(0)]

\* Mutant of applyScale: the direction is ignored, the text always grows.
applyScaleGrowOnly(textNode, text, frameIndex, direction) ==
  LET node == [textNode EXCEPT !.characters = text]
  IN  IF frameIndex = 0
        THEN [node EXCEPT !.opacity = Num(0), !.fontSize = 1]
        ELSE [node EXCEPT !.opacity = Num(1), !.fontSize = 16]

\* The scale branch of createTextNodeForFrame (baseFontSize = 16).
applyScale(textNode, text, frameIndex, direction) ==
  LET baseFontSize == 16
      isGrow == direction = "forward"
      node == [textNode EXCEPT !.characters = text]
  IN  IF isGrow THEN
        IF frameIndex = 0
          THEN [node EXCEPT !.opacity = Num(0), !.fontSize = 1]
          ELSE [node EXCEPT !.opacity = Num(1), !.fontSize = baseFontSize]
      ELSE
        IF frameIndex = 0
          THEN [node EXCEPT !.opacity = Num(1), !.fontSize = baseFontSize]
          ELSE [node EXCEPT !.opacity = Num(0), !.fontSize = 1]

\* createTextNodeForFrame(text, animation, frameIndex, totalFrames); the fill
\* colour does not enter any frame decision and is left out.
createTextNodeForFrame(text, animation, frameIndex, totalFrames) ==
  LET textNode == NewTextNode
      style == animation.style
      typeBy == animation.typeBy
      direction == animation.direction
      progress == Progress(frameIndex, totalFrames)
      styled ==
        CASE style = "typing" ->
               applyTypingEffect(textNode, text, typeBy, frameIndex, direction)
          [] style = "fade-in" ->
               [textNode EXCEPT
                  !.characters = text,
                  !.opacity = IF typeBy = "letter"
                                THEN applyLetterOpacity(text, frameIndex, totalFrames)
                                ELSE RMin(RMul(progress, Rat(12, 10)), Num(1))]
          [] style = "fade-out" ->
               [textNode EXCEPT
                  !.characters = text,
                  !.opacity = IF typeBy = "letter"
                                THEN applyLetterOpacity(text, totalFrames - frameIndex - 1,
                                                        totalFrames)
                                ELSE RMax(RSub(Num(1), RMul(progress, Rat(12, 10))),
                                          Num(0))]
          [] style = "scale" -> applyScale(textNode, text, frameIndex, direction)
          [] style \in {"slide-left", "slide-right", "slide-up", "slide-down"} ->
               applySlideEffect([textNode EXCEPT !.characters = text], progress, typeBy)
          [] style = "rotate" ->
               IF typeBy = "word"
                 THEN applyWordRotateEffect(textNode, text, frameIndex, totalFrames,
                                            direction)
                 ELSE applyLetterRotateEffect(textNode, text, frameIndex, totalFrames,
                                              direction)
          [] OTHER -> [textNode EXCEPT !.characters = text]
  IN  IF style # "scale" /\ style # "rotate"
        THEN [styled EXCEPT !.fontSize = 16]
        ELSE styled

\* The text of one frame of the FigJam and Slides renderings.  The second
\* 'scale' label of the switch is never reached.
getFrameText(text, animation, frameIndex, totalFrames) ==
  LET style == animation.style
      typeBy == animation.typeBy
      direction == animation.direction
      progress == Progress(frameIndex, totalFrames)
      words == Split(text)
  IN
  IF style = "typing" THEN
    IF typeBy = "letter" THEN
      LET visibleLength == IF direction = "forward" THEN frameIndex
                           ELSE IMax(0, Len(text) - frameIndex)
      IN  Substring(text, 0, visibleLength)
    ELSE
      IF frameIndex = 0 THEN <<>>
      ELSE IF direction = "forward" THEN Join(Slice(words, 0, frameIndex))
      ELSE Join(SliceFrom(words, IMax(0, Len(words) - frameIndex)))
  ELSE IF style \in {"fade-in", "fade-out", "slide-left", "slide-right",
                     "slide-up", "slide-down", "scale"} THEN
    IF typeBy = "letter" THEN
      LET visibleLength == ToIndex(RFloor(RMul(progress, Num(Len(text)))))
      IN  Substring(text, 0, visibleLength)
    ELSE text
  ELSE IF style = "rotate" THEN
    IF typeBy = "word" THEN
      IF frameIndex = 0 THEN <<>>
      ELSE IF direction = "forward" THEN
        LET wordIndex == IMin(frameIndex - 1, Len(words) - 1)
        IN  Join(Slice(words, 0, wordIndex + 1))
      ELSE
        LET totalVisibleWords == IMin(frameIndex, Len(words))
        IN  Join(SliceFrom(words, Len(words) - totalVisibleWords))
    ELSE
      LET visibleLength == ToIndex(RFloor(RMul(progress, Num(Len(text)))))
      IN  IF direction = "forward" THEN Substring(text, 0, visibleLength)
          ELSE IF visibleLength = 0 THEN <<>>
          ELSE SubstringFrom(text, Len(text) - visibleLength)
  ELSE text

-----------------------------------------------------------------------------
(* Timed reactions *)

\* Mutant of reactionFor: a dissolve edge waits the whole time per transition
\* and the transition comes on top of it.
reactionForFullWait(i, n, animation) ==
  LET totalDuration == Num(animation.duration)
      timePerTransition == RDiv(totalDuration, Num(n))
      transitionDuration ==
        RDiv(RMax(RMul(timePerTransition, Rat(2, 10)), Num(50)), Num(1000))
  IN  [from |-> i,
       to |-> (i + 1) % n,
       timeout |->
         IF animation.style = "scale" THEN Rat(1, 100)
         ELSE RDiv(timePerTransition, Num(1000)),
       transition |->
         IF animation.style = "scale"
           THEN [type |-> "SMART_ANIMATE", duration |-> RDiv(totalDuration, Num(1000))]
         ELSE IF animation.style = "typing"
           THEN [type |-> "INSTANT", duration |-> Num(0)]
         ELSE [type |-> "DISSOLVE", duration |-> transitionDuration]]

\* Mutant of reactionFor: a dissolve edge has no minimal transition and no
\* minimal wait.
reactionForNoFloors(i, n, animation) ==
  LET totalDuration == Num(animation.duration)
      timePerTransition == RDiv(totalDuration, Num(n))
      transitionDuration == RDiv(RMul(timePerTransition, Rat(2, 10)), Num(1000))
  IN  [from |-> i,
       to |-> (i + 1) % n,
       timeout |->
         IF animation.style = "scale" THEN Rat(1, 100)
         ELSE IF animation.style = "typing" THEN RDiv(timePerTransition, Num(1000))
         ELSE RSub(RDiv(timePerTransition, Num(1000)), transitionDuration),
       transition |->
         IF animation.style = "scale"
           THEN [type |-> "SMART_ANIMATE", duration |-> RDiv(totalDuration, Num(1000))]
         ELSE IF animation.style = "typing"
           THEN [type |-> "INSTANT", duration |-> Num(0)]
         ELSE [type |-> "DISSOLVE", duration |-> transitionDuration]]

\* Mutant of reactionFor: typing is timed like the dissolving styles.
reactionForTypingDissolve(i, n, animation) ==
  LET totalDuration == Num(animation.duration)
      timePerTransition == RDiv(totalDuration, Num(n))
      isScaleAnimation == animation.style = "scale"
      transitionDuration ==
        RDiv(RMax(RMul(timePerTransition, Rat(2, 10)), Num(50)), Num(1000))
  IN  [from |-> i,
       to |-> (i + 1) % n,
       timeout |->
         IF isScaleAnimation THEN Rat(1, 100)
         ELSE RMax(RSub(RDiv(timePerTransition, Num(1000)), transitionDuration),
                   Rat(1, 100)),
       transition |->
         IF isScaleAnimation
           THEN [type |-> "SMART_ANIMATE", duration |-> RDiv(totalDuration, Num(1000))]
         ELSE [type |-> "DISSOLVE", duration |-> transitionDuration]]

\* Mutant of reactionFor: the variants are walked in the frame order of the
\* direction (last to first for backwards), as setupPrototypingInteractions
\* does.
reactionForFrameOrder(i, n, animation) ==
  LET totalDuration == Num(animation.duration)
      timePerTransition == RDiv(totalDuration, Num(n))
      forward == animation.direction = "forward"
      transitionDuration ==
        RDiv(RMax(RMul(timePerTransition, Rat(2, 10)), Num(50)), Num(1000))
  IN  [from |-> IF forward THEN i ELSE n - 1 - i,
       to |-> IF forward THEN (i + 1) % n ELSE n - 1 - ((i + 1) % n),
       timeout |->
         IF animation.style = "scale" THEN Rat(1, 100)
         ELSE IF animation.style = "typing" THEN RDiv(timePerTransition, Num(1000))
         ELSE RMax(RSub(RDiv(timePerTransition, Num(1000)), transitionDuration),
                   Rat(1, 100)),
       transition |->
         IF animation.style = "scale"
           THEN [type |-> "SMART_ANIMATE", duration |-> RDiv(totalDuration, Num(1000))]
         ELSE IF animation.style = "typing"
           THEN [type |-> "INSTANT", duration |-> Num(0)]
         ELSE [type |-> "DISSOLVE", duration |-> transitionDuration]]

\* One iteration of the loop of setupSimplePrototyping: the reaction set on
\* variant i of n.  timeout and duration are in seconds; a null transition
\* (an instant change) is the record of type "INSTANT".
reactionFor(i, n, animation) ==
  LET totalDuration == Num(animation.duration)
      numTransitions == n
      timePerTransition == RDiv(totalDuration, Num(numTransitions))
      isScaleAnimation == animation.style = "scale"
      isTypingAnimation == animation.style = "typing"
      transitionDuration ==
        RDiv(RMax(RMul(timePerTransition, Rat(2, 10)), Num(50)), Num(1000))
  IN  [from |-> i,
       to |-> (i + 1) % n,
       timeout |->
         IF isScaleAnimation THEN Rat(1, 100)
         ELSE IF isTypingAnimation THEN RDiv(timePerTransition, Num(1000))
         ELSE RMax(RSub(RDiv(timePerTransition, Num(1000)), transitionDuration),
                   Rat(1, 100)),
       transition |->
         IF isScaleAnimation
           THEN [type |-> "SMART_ANIMATE", duration |-> RDiv(totalDuration, Num(1000))]
         ELSE IF isTypingAnimation
           THEN [type |-> "INSTANT", duration |-> Num(0)]
         ELSE [type |-> "DISSOLVE", duration |-> transitionDuration]]

\* Mutants of skipsReaction: the last variant never loops back, whatever the
\* style; and no variant is skipped, so scale loops too.
skipsLastVariant(i, n, animation) == i = n - 1

skipsNoVariant(i, n, animation) == FALSE

\* The loop's `continue`: no reaction on the last variant of a scale animation.
skipsReaction(i, n, animation) == animation.style = "scale" /\ i = n - 1

-----------------------------------------------------------------------------
(* The handling of one create-component message *)

VARIABLES
  pc,            \* where createAnimationComponent stands
  data,          \* the ComponentData of the message
  frameCount,    \* createAnimationVariants' frameCount
  i,             \* the running loop index
  variants,      \* the components pushed so far, each with its text node
  pageNodes,     \* components put on the current page
  componentSet,  \* whether combineAsVariants has built the component set
  reactions,     \* the reactions set on the host, in the order they were set
  warnings,      \* console.warn / console.log diagnostics of the prototyping step
  messages,      \* the 'component-created' messages posted to the UI
  previous,      \* frames and edges of the request handled before this one
  editorType,    \* figma.editorType
  top,           \* the top-level statement of the module that runs next
  listeners,     \* the 'selectionchange' listeners, in order of registration
  selection,     \* figma.currentPage.selection, as the types of its nodes
  events,        \* 'selectionchange' events dispatched so far
  uiMessages     \* the 'selection-changed' messages posted to the UI

vars == <<pc, data, frameCount, i, variants, pageNodes, componentSet,
          reactions, warnings, messages, previous,
          editorType, top, listeners, selection, events, uiMessages>>

requestVars == <<pc, data, frameCount, i, variants, pageNodes, componentSet,
                 reactions, warnings, messages, previous>>

selectionVars == <<editorType, top, listeners, selection, events, uiMessages>>

\* No request has been handled before the current one.
NoPrevious == [variants |-> <<>>, reactions |-> <<>>]

NoData == [text |-> <<>>,
           animation |-> [style |-> "", typeBy |-> "", direction |-> "",
                          duration |-> 0]]

\* sendSelectionToUI: the data of the message it posts, the selected text
\* layer or null.
sendSelectionToUI(sel) ==
  IF Len(sel) = 1 /\ sel[1] = "TEXT" THEN "TEXT" ELSE "null"

\* No request is being handled.
InitRequest ==
  /\ pc = "idle"
  /\ data = NoData
  /\ frameCount = 0
  /\ i = 0
  /\ variants = <<>>
  /\ pageNodes = 0
  /\ componentSet = FALSE
  /\ reactions = <<>>
  /\ warnings = {}
  /\ messages = <<>>
  /\ previous = NoPrevious

\* The figma editor after the module's top-level code has run with nothing
\* selected: initPlugin ran at both of its call sites.
Init ==
  /\ InitRequest
  /\ editorType = "figma"
  /\ top = "ready"
  /\ listeners = <<"sendSelectionToUI", "sendSelectionToUI">>
  /\ selection = <<>>
  /\ events = 0
  /\ uiMessages = <<[event |-> 0, data |-> "null"], [event |-> 0, data |-> "null"]>>

\* The catch block of createAnimationComponent.
PostFailure ==
  /\ messages' = Append(messages, [success |-> FALSE, error |-> "host error"])
  /\ pc' = "done"

\* handleUIMessage('create-component') up to the first iteration of the loop
\* of createAnimationVariants.
Create(text, animation) ==
  /\ pc = "idle"
  /\ data' = [text |-> text, animation |-> animation]
  /\ frameCount' = calculateFrameCount(animation.style, animation.typeBy, text)
  /\ i' = 0
  /\ pc' = IF calculateFrameCount(animation.style, animation.typeBy, text) > 0
             THEN "variants" ELSE "combine"
  /\ UNCHANGED <<selectionVars, previous, variants, pageNodes, componentSet, reactions, warnings, messages>>

\* Mutant of CreateVariant: the frame index is the number of components
\* already on the page (capped at the last frame), not the loop index.
CreateVariantFromPage ==
  /\ pc = "variants"
  /\ i < frameCount
  /\ variants' = Append(variants,
                        createTextNodeForFrame(data.text, data.animation,
                                               IMin(pageNodes, frameCount - 1),
                                               frameCount))
  /\ pageNodes' = pageNodes + 1
  /\ i' = i + 1
  /\ pc' = IF i + 1 < frameCount THEN "variants" ELSE "combine"
  /\ UNCHANGED <<selectionVars, previous, data, frameCount, componentSet, reactions, warnings, messages>>

\* One iteration of the loop of createAnimationVariants.
CreateVariant ==
  /\ pc = "variants"
  /\ i < frameCount
  /\ variants' = Append(variants,
                        createTextNodeForFrame(data.text, data.animation, i, frameCount))
  /\ pageNodes' = pageNodes + 1
  /\ i' = i + 1
  /\ pc' = IF i + 1 < frameCount THEN "variants" ELSE "combine"
  /\ UNCHANGED <<selectionVars, previous, data, frameCount, componentSet, reactions, warnings, messages>>

\* figma.createComponent() throws: nothing is added by this iteration.
CreateComponentThrows ==
  /\ pc = "variants"
  /\ i < frameCount
  /\ PostFailure
  /\ UNCHANGED <<selectionVars, previous, data, frameCount, i, variants, pageNodes, componentSet,
                 reactions, warnings>>

\* A host call after figma.createComponent() throws (createText, loadFontAsync,
\* appendChild, resize): the new component stays on the page.
CreateTextNodeThrows ==
  /\ pc = "variants"
  /\ i < frameCount
  /\ pageNodes' = pageNodes + 1
  /\ PostFailure
  /\ UNCHANGED <<selectionVars, previous, data, frameCount, i, variants, componentSet, reactions, warnings>>

\* figma.combineAsVariants and the layout of the set, then the entry of
\* setupSimplePrototyping with its early return below two variants.
CombineAsVariants ==
  /\ pc = "combine"
  /\ componentSet' = TRUE
  /\ i' = 0
  /\ IF Len(variants) < 2
       THEN /\ warnings' = warnings \cup {"Need at least 2 variants for prototyping"}
            /\ pc' = "finish"
       ELSE /\ warnings' = warnings
            /\ pc' = "proto"
  /\ UNCHANGED <<selectionVars, previous, data, frameCount, variants, pageNodes, reactions, messages>>

CombineAsVariantsThrows ==
  /\ pc = "combine"
  /\ PostFailure
  /\ UNCHANGED <<selectionVars, previous, data, frameCount, i, variants, pageNodes, componentSet,
                 reactions, warnings>>

\* The index of the next iteration after j that awaits the host, or the
\* number of variants when the loop is over.
RECURSIVE NextAwait(_, _, _)
NextAwait(j, n, animation) ==
  IF j < n /\ skipsReaction(j, n, animation)
    THEN NextAwait(j + 1, n, animation)
    ELSE j

\* currentVariant.setReactionsAsync([reaction]) resolves.
SetReactions ==
  /\ pc = "proto"
  /\ i < Len(variants)
  /\ reactions' = Append(reactions, reactionFor(i, Len(variants), data.animation))
  /\ i' = NextAwait(i + 1, Len(variants), data.animation)
  /\ pc' = IF NextAwait(i + 1, Len(variants), data.animation) < Len(variants)
             THEN "proto" ELSE "finish"
  /\ UNCHANGED <<selectionVars, previous, data, frameCount, variants, pageNodes, componentSet, warnings,
                 messages>>

\* setReactionsAsync rejects: the catch of setupSimplePrototyping warns and
\* the function returns normally.
SetReactionsThrows ==
  /\ pc = "proto"
  /\ i < Len(variants)
  /\ warnings' = warnings \cup {"Simple prototyping setup failed"}
  /\ pc' = "finish"
  /\ UNCHANGED <<selectionVars, previous, data, frameCount, i, variants, pageNodes, componentSet,
                 reactions, messages>>

\* The tail of createAnimationComponent: plugin data, selection, success.
NotifySuccess ==
  /\ pc = "finish"
  /\ messages' = Append(messages, [success |-> TRUE, error |-> ""])
  /\ pc' = "done"
  /\ UNCHANGED <<selectionVars, previous, data, frameCount, i, variants, pageNodes, componentSet,
                 reactions, warnings>>

\* setPluginData, the selection or the viewport call throws.
FinishThrows ==
  /\ pc = "finish"
  /\ PostFailure
  /\ UNCHANGED <<selectionVars, previous, data, frameCount, i, variants, pageNodes, componentSet,
                 reactions, warnings>>

Animations ==
  [style : Styles, typeBy : TypeBys, direction : Directions, duration : Durations]

\* A 'create-component' message arrives from the UI.
CreateComponent ==
  /\ pc = "idle"
  /\ \E text \in Texts, animation \in Animations : Create(text, animation)

Next ==
  \/ CreateComponent
  \/ CreateVariant
  \/ CreateComponentThrows
  \/ CreateTextNodeThrows
  \/ CombineAsVariants
  \/ CombineAsVariantsThrows
  \/ SetReactions
  \/ SetReactionsThrows
  \/ NotifySuccess
  \/ FinishThrows

Spec == Init /\ [][Next]_vars

\* The UI posts the same 'create-component' message a second time, after the
\* first request went through with its whole graph: createAnimationVariants
\* starts from its own empty array, on a page that holds what the first
\* request left.
CreateAgain ==
  /\ pc = "done"
  /\ previous = NoPrevious
  /\ componentSet
  /\ Len(variants) >= 2
  /\ warnings = {}
  /\ messages = <<[success |-> TRUE, error |-> ""]>>
  /\ previous' = [variants |-> variants, reactions |-> reactions]
  /\ frameCount' = calculateFrameCount(data.animation.style, data.animation.typeBy,
                                       data.text)
  /\ i' = 0
  /\ variants' = <<>>
  /\ componentSet' = FALSE
  /\ reactions' = <<>>
  /\ messages' = <<>>
  /\ pc' = "variants"
  /\ UNCHANGED <<selectionVars, data, pageNodes, warnings>>

NextTwice ==
  \/ Next
  \/ CreateAgain

SpecTwice == Init /\ [][NextTwice]_vars

-----------------------------------------------------------------------------
(* Module start-up and the selection listener *)

EditorTypes == {"figma", "figjam", "slides"}

\* Selections of no node, one text layer, one other node, two text layers.
Selections == {<<>>, <<"TEXT">>, <<"FRAME">>, <<"TEXT", "TEXT">>}

\* The module is loaded and none of its top-level statements has run.
InitModule ==
  /\ InitRequest
  /\ editorType \in EditorTypes
  /\ top = "first"
  /\ listeners = <<>>
  /\ selection \in Selections
  /\ events = 0
  /\ uiMessages = <<>>

\* initPlugin: the initial selection goes to the UI and a 'selectionchange'
\* listener that calls sendSelectionToUI is registered.
initPlugin ==
  /\ uiMessages' = Append(uiMessages,
                          [event |-> 0, data |-> sendSelectionToUI(selection)])
  /\ listeners' = Append(listeners, "sendSelectionToUI")

\* The first top-level statement: initPlugin() in the figma editor.
StartFirst ==
  /\ top = "first"
  /\ IF editorType = "figma" THEN initPlugin
                              ELSE UNCHANGED <<uiMessages, listeners>>
  /\ top' = "second"
  /\ UNCHANGED <<requestVars, editorType, selection, events>>

\* The second top-level statement: initPlugin() in the figma editor, again.
StartSecond ==
  /\ top = "second"
  /\ IF editorType = "figma" THEN initPlugin
                              ELSE UNCHANGED <<uiMessages, listeners>>
  /\ top' = "figjam"
  /\ UNCHANGED <<requestVars, editorType, selection, events>>

\* The FigJam block registers its own listener, with the body of
\* sendSelectionToUI written out.
StartFigJam ==
  /\ top = "figjam"
  /\ listeners' = IF editorType = "figjam" THEN Append(listeners, "figjam")
                                           ELSE listeners
  /\ top' = "slides"
  /\ UNCHANGED <<requestVars, editorType, selection, events, uiMessages>>

\* The Slides block registers no listener.
StartSlides ==
  /\ top = "slides"
  /\ top' = "ready"
  /\ UNCHANGED <<requestVars, editorType, listeners, selection, events, uiMessages>>

\* The user changes the selection: the host calls every registered listener,
\* and each posts the new selection.
SelectionChange ==
  /\ top = "ready"
  /\ events < MaxEvents
  /\ \E sel \in Selections \ {selection} :
       /\ selection' = sel
       /\ uiMessages' = uiMessages \o
            [k \in 1..Len(listeners) |->
               [event |-> events + 1, data |-> sendSelectionToUI(sel)]]
  /\ events' = events + 1
  /\ UNCHANGED <<requestVars, editorType, top, listeners>>

NextSelection ==
  \/ StartFirst
  \/ StartSecond
  \/ StartFigJam
  \/ StartSlides
  \/ SelectionChange

SpecSelection == InitModule /\ [][NextSelection]_vars

-----------------------------------------------------------------------------
(* Vocabulary of the properties *)

Text == data.text
Style == data.animation.style
TypeBy == data.animation.typeBy
Direction == data.animation.direction
DurationMs == data.animation.duration

Accepted == pc # "idle"

\* All frames of the request have been created.
AllFramesCreated == Accepted /\ Len(variants) = frameCount

\* setupSimplePrototyping has returned after going through its whole loop.
GraphComplete ==
  /\ pc \in {"finish", "done"}
  /\ componentSet
  /\ Len(variants) >= 2
  /\ "Simple prototyping setup failed" \notin warnings

Spaces(t) == Cardinality({k \in 1..Len(t) : t[k] = " "})

\* Position of the k-th space of t (1 <= k <= Spaces(t)).
KthSpace(t, k) ==
  CHOOSE j \in 1..Len(t) : t[j] = " " /\ Spaces(SubSeq(t, 1, j)) = k

\* Number of reveal units of a text.
UnitCount(t, typeBy) == IF typeBy = "letter" THEN Len(t) ELSE Spaces(t) + 1

\* The first k reveal units of t, as they stand in t.
FirstUnits(t, typeBy, k) ==
  IF typeBy = "letter" THEN SubSeq(t, 1, k)
  ELSE IF k = 0 THEN <<>>
  ELSE IF k > Spaces(t) THEN t
  ELSE SubSeq(t, 1, KthSpace(t, k) - 1)

\* The last k reveal units of t, as they stand in t.
LastUnits(t, typeBy, k) ==
  IF typeBy = "letter" THEN SubSeq(t, Len(t) - k + 1, Len(t))
  ELSE IF k = 0 THEN <<>>
  ELSE IF k > Spaces(t) THEN t
  ELSE SubSeq(t, KthSpace(t, Spaces(t) - k + 1) + 1, Len(t))

\* waitMs and transitionMs of a reaction.
WaitMs(r) == RMul(r.timeout, Num(1000))
TransitionMs(r) == RMul(r.transition.duration, Num(1000))

RECURSIVE SumMs(_)
SumMs(rs) ==
  IF rs = <<>> THEN Num(0)
  ELSE RAdd(RAdd(WaitMs(Head(rs)), TransitionMs(Head(rs))), SumMs(Tail(rs)))

-----------------------------------------------------------------------------
(* Properties *)

\* C1: calculateFrameCount returns 2 for scale; for every other known style
\* it returns unitCount + 1 (characters for letter, pieces between single
\* spaces for word); for a non-empty text the result is at least 2.
C1_FrameCount ==
  (Accepted /\ Style \in KnownStyles) =>
    /\ Style = "scale" => frameCount = 2
    /\ Style # "scale" => frameCount = UnitCount(Text, TypeBy) + 1
    /\ Text # <<>> => frameCount >= 2

C1_Witness ==
  /\ Accepted /\ Style = "fade-in" /\ TypeBy = "word"
  /\ Text = <<"a", " ", "b">> /\ frameCount = 3

\* C2: for typing, frame k shows exactly the first k units (forward) or the
\* last k units (backwards) in their original order; frame 0 is empty and
\* the last frame is the full text.
C2_TypingFrames ==
  (Accepted /\ Style = "typing") =>
    /\ \A k \in 1..Len(variants) :
         variants[k].characters =
           IF Direction = "forward" THEN FirstUnits(Text, TypeBy, k - 1)
                                    ELSE LastUnits(Text, TypeBy, k - 1)
    /\ Len(variants) >= 1 => variants[1].characters = <<>>
    /\ AllFramesCreated => variants[frameCount].characters = Text

C2_Witness ==
  /\ AllFramesCreated /\ Style = "typing" /\ TypeBy = "word"
  /\ Direction = "backwards" /\ Text = <<"a", " ", "b">>
  /\ variants[2].characters = <<"b">>

\* C3: for a style other than scale, once the whole graph is registered and
\* totalDuration / frameCount >= 250 ms, waitMs + transitionMs summed over
\* the edges is exactly the total duration.
C3_TimingSum ==
  (GraphComplete /\ Style # "scale" /\ DurationMs >= 250 * frameCount) =>
    SumMs(reactions) = Num(DurationMs)

C3_Witness ==
  /\ GraphComplete /\ Style = "fade-out" /\ frameCount = 4
  /\ DurationMs = 3000 /\ Len(reactions) = 4

\* C4: for a style other than scale with N >= 2 frames, the registered graph
\* has exactly N edges, one out of each frame, frame i to frame (i+1) mod N.
C4_Cycle ==
  (GraphComplete /\ Style # "scale") =>
    /\ Len(reactions) = frameCount
    /\ \A k \in 0..(frameCount - 1) :
         /\ reactions[k + 1].from = k
         /\ reactions[k + 1].to = (IF k = frameCount - 1 THEN 0 ELSE k + 1)

C4_Witness ==
  /\ GraphComplete /\ Style = "rotate" /\ frameCount = 3
  /\ Len(reactions) = 3 /\ reactions[3].to = 0

\* C5: for scale the graph is terminal: one edge, frame 0 to frame 1, none
\* out of the last frame, transitionMs = total duration, waitMs = 10,
\* kind smart-animate.
C5_ScaleTerminal ==
  (GraphComplete /\ Style = "scale") =>
    /\ Len(reactions) = 1
    /\ reactions[1].from = 0
    /\ reactions[1].to = 1
    /\ \A k \in 1..Len(reactions) : reactions[k].from # frameCount - 1
    /\ TransitionMs(reactions[1]) = Num(DurationMs)
    /\ WaitMs(reactions[1]) = Num(10)
    /\ reactions[1].transition.type = "SMART_ANIMATE"

C5_Witness ==
  /\ GraphComplete /\ Style = "scale" /\ Direction = "backwards"
  /\ Text = <<"a", "b">> /\ DurationMs = 500 /\ Len(reactions) = 1

\* C6: for scale, forward: frame 0 has opacity 0 and the minimal font size,
\* frame 1 opacity 1 and the full size; backwards the roles are swapped;
\* both frames carry the full text whatever the reveal unit.
C6_ScaleFrames ==
  (Accepted /\ Style = "scale") =>
    \A k \in 1..Len(variants) :
      /\ variants[k].characters = Text
      /\ LET shown == (Direction = "forward") = (k = 2)
         IN  /\ variants[k].opacity = (IF shown THEN Num(1) ELSE Num(0))
             /\ variants[k].fontSize = (IF shown THEN 16 ELSE 1)

C6_Witness ==
  /\ AllFramesCreated /\ Style = "scale" /\ Direction = "backwards"
  /\ TypeBy = "word" /\ Text = <<"a", " ", "b">>
  /\ variants[1].opacity = Num(1) /\ variants[2].opacity = Num(0)

\* A configuration the data model admits: a text that is not empty after
\* trimming, a positive duration and a known style.
ValidConfig == Trim(Text) # <<>> /\ DurationMs > 0 /\ Style \in KnownStyles

\* C7: a text that is empty after trimming, or any frame count below 2, is
\* rejected: no transition graph is built and the status event reports
\* failure, never success.  (Stated for a positive duration and a known
\* style, so that only the text decides.)
C7_EmptyRejected ==
  (/\ pc = "done"
   /\ DurationMs > 0 /\ Style \in KnownStyles
   /\ (Trim(Text) = <<>> \/ frameCount < 2)) =>
    /\ reactions = <<>>
    /\ ~messages[Len(messages)].success

\* C8: a non-positive duration or an unknown style is rejected before any
\* frame is computed: no frame node, no edge, and a failure status.  (Stated
\* for a text that is not empty, so that only duration and style decide.)
C8_InvalidConfigRejected ==
  (/\ Accepted
   /\ Trim(Text) # <<>>
   /\ (DurationMs <= 0 \/ Style \notin KnownStyles)) =>
    /\ pageNodes = 0
    /\ variants = <<>>
    /\ reactions = <<>>
    /\ pc = "done" => ~messages[Len(messages)].success

\* The edges the graph of the request has: none below two frames, one for
\* scale, one per frame otherwise.
EdgeCount ==
  IF frameCount < 2 THEN 0 ELSE IF Style = "scale" THEN 1 ELSE frameCount

\* C9: a request emits exactly one status event, and it reports success only
\* if all frames were realized and every edge was registered; a failed host
\* call gives a failure event.  (Stated for valid configurations.)
C9_SuccessMeansComplete ==
  (pc = "done" /\ ValidConfig) =>
    /\ Len(messages) = 1
    /\ messages[1].success =>
         /\ Len(variants) = frameCount
         /\ Len(reactions) = EdgeCount
         /\ "Simple prototyping setup failed" \notin warnings

\* C10: synthesis is all-or-nothing: after a request the document holds all
\* N frames together with a success status, or none of them.  (Stated for
\* valid configurations.)
C10_AllOrNothing ==
  (pc = "done" /\ ValidConfig) =>
    \/ messages[Len(messages)].success /\ pageNodes = frameCount
    \/ ~messages[Len(messages)].success /\ pageNodes = 0

\* C11: all N frames are realized before the first transition is registered,
\* and transitions are registered in ascending source-frame order; so
\* wherever registration stops, every registered edge references realized
\* frames only and the edges registered so far are the chain 0 -> 1 -> ... -> j
\* (the edge out of the last frame closing it back to frame 0).
C11_FramesBeforeEdges ==
  /\ reactions # <<>> => Len(variants) = frameCount
  /\ \A k \in 1..Len(reactions) :
       /\ reactions[k].from = k - 1
       /\ reactions[k].from \in 0..(Len(variants) - 1)
       /\ reactions[k].to \in 0..(Len(variants) - 1)
       /\ k < frameCount => reactions[k].to = k

\* Registration was interrupted after the edges 0 -> 1 and 1 -> 2 of 4.
C11_Witness ==
  /\ "Simple prototyping setup failed" \in warnings
  /\ frameCount = 4 /\ Len(variants) = 4 /\ Len(reactions) = 2
  /\ reactions[2].from = 1 /\ reactions[2].to = 2

\* C12: for every style, unit, direction, non-empty text and frame index,
\* the opacity of the frame lies in [0, 1].
C12_OpacityRange ==
  (Accepted /\ Text # <<>> /\ Style \in KnownStyles) =>
    \A k \in 1..Len(variants) :
      /\ RLe(Num(0), variants[k].opacity)
      /\ RLe(variants[k].opacity, Num(1))

\* The opacity curves of the fade styles at frame k of n (k from 0).
FadeInCurve(k, n) == RMin(RMul(Rat(k, n - 1), Rat(6, 5)), Num(1))
FadeOutCurve(k, n) == RMax(RSub(Num(1), RMul(Rat(k, n - 1), Rat(6, 5))), Num(0))

\* C13: for fade-in, with either unit, every frame shows the full text with
\* opacity min(progress * 1.2, 1), for fade-out max(1 - progress * 1.2, 0),
\* progress = frameIndex / (frameCount - 1); so fade-in goes from 0 to 1 and
\* fade-out from 1 to 0.
C13_FadeCurve ==
  (Accepted /\ Style \in {"fade-in", "fade-out"} /\ Text # <<>>) =>
    \A k \in 1..Len(variants) :
      /\ variants[k].characters = Text
      /\ variants[k].opacity =
           IF Style = "fade-in" THEN FadeInCurve(k - 1, frameCount)
                                ELSE FadeOutCurve(k - 1, frameCount)

\* The animation of the request with its direction flipped.
OtherDirection ==
  [data.animation EXCEPT
     !.direction = IF @ = "forward" THEN "backwards" ELSE "forward"]

\* C14: the graph does not depend on direction: the edges registered (source,
\* target, wait, transition, kind) are those the opposite direction would
\* register, out of the same frames, and every edge goes from frame i to the
\* next frame in ascending order (the last one back to frame 0).
C14_DirectionFree ==
  GraphComplete =>
    LET n == Len(variants)
    IN  /\ \A k \in 1..Len(reactions) :
             /\ reactions[k] = reactionFor(k - 1, n, OtherDirection)
             /\ reactions[k].from = k - 1
             /\ reactions[k].to = (IF k = n THEN 0 ELSE k)
        /\ \A j \in 0..(n - 1) :
             skipsReaction(j, n, OtherDirection)
               <=> ~ \E k \in 1..Len(reactions) : reactions[k].from = j

C14_Witness ==
  /\ GraphComplete /\ Direction = "backwards" /\ Style = "slide-left"
  /\ Text = <<"a", "b", " ">> /\ Len(reactions) = 4
  /\ reactions[2].to = 2 /\ reactions[4].to = 0

\* C15: for typing with N frames, each of the N edges waits
\* totalDurationMs / N, has transitionMs = 0 and is an instant change, so the
\* waits sum exactly to totalDurationMs.
C15_TypingEdges ==
  (GraphComplete /\ Style = "typing") =>
    /\ Len(reactions) = frameCount
    /\ \A k \in 1..Len(reactions) :
         /\ WaitMs(reactions[k]) = Rat(DurationMs, frameCount)
         /\ TransitionMs(reactions[k]) = Num(0)
         /\ reactions[k].transition.type = "INSTANT"
    /\ SumMs(reactions) = Num(DurationMs)

C15_Witness ==
  /\ GraphComplete /\ Style = "typing" /\ TypeBy = "word"
  /\ Text = <<"a", " ", "b">> /\ DurationMs = 900
  /\ frameCount = 3 /\ Len(reactions) = 3
  /\ \A k \in 1..3 : WaitMs(reactions[k]) = Num(300)

\* totalDurationMs / frameCount of the request.
TimePerEdge == Rat(DurationMs, frameCount)

\* C16: for every style other than scale and typing each edge dissolves,
\* transitionMs = max(0.2 * timePerEdge, 50) and
\* waitMs = max(timePerEdge - transitionMs, 10); hence transitionMs >= 50 and
\* waitMs >= 10 on every edge.
C16_DissolveEdges ==
  (GraphComplete /\ Style \notin {"scale", "typing"}) =>
    \A k \in 1..Len(reactions) :
      /\ reactions[k].transition.type = "DISSOLVE"
      /\ TransitionMs(reactions[k]) = RMax(RMul(Rat(1, 5), TimePerEdge), Num(50))
      /\ WaitMs(reactions[k]) =
           RMax(RSub(TimePerEdge, TransitionMs(reactions[k])), Num(10))
      /\ RGe(TransitionMs(reactions[k]), Num(50))
      /\ RGe(WaitMs(reactions[k]), Num(10))

C16_Witness ==
  /\ GraphComplete /\ Style = "rotate" /\ DurationMs = 100
  /\ frameCount = 4 /\ Len(reactions) = 4
  /\ TransitionMs(reactions[4]) = Num(50) /\ WaitMs(reactions[4]) = Num(10)

\* The characters of t in reverse order.
Reverse(t) == [k \in 1..Len(t) |-> t[Len(t) + 1 - k]]

\* C17: typing by letter: the backwards run has as many frames as the forward
\* run, and the character reversal of its frame k is frame k of the forward
\* run on the reversed text.
C17_TypingSymmetry ==
  (Accepted /\ Style = "typing" /\ TypeBy = "letter" /\ Direction = "backwards") =>
    /\ frameCount = calculateFrameCount("typing", "letter", Reverse(Text))
    /\ frameCount = Len(Text) + 1
    /\ \A k \in 1..Len(variants) :
         Reverse(variants[k].characters) =
           applyTypingEffect(NewTextNode, Reverse(Text), "letter", k - 1,
                             "forward").characters

C17_Witness ==
  /\ AllFramesCreated /\ Style = "typing" /\ TypeBy = "letter"
  /\ Direction = "backwards" /\ Text = <<"a", "b", " ">>
  /\ variants[2].characters = <<" ">>
  /\ variants[3].characters = <<"b", " ">>

C19_RotateMonotone ==
  (Accepted /\ Style = "rotate" /\ TypeBy = "letter" /\ Direction = "forward") =>
    /\ \A k \in 1..Len(variants) :
         /\ Len(variants[k].characters) = Len(Text)
         /\ \A p \in 1..Len(Text) : variants[k].characters[p] \in {Text[p], " "}
    /\ \A k, l \in 1..Len(variants) :
         k < l =>
           \A p \in 1..Len(Text) :
             variants[k].characters[p] = Text[p] => variants[l].characters[p] = Text[p]
    /\ (AllFramesCreated /\ Text # <<>>) => variants[frameCount].characters = Text

\* C20: for the dissolving styles (not scale, not typing) each edge's
\* waitMs + transitionMs is max(timePerEdge, 60); hence the realized total is
\* never less than totalDurationMs and exceeds it exactly when
\* totalDurationMs / frameCount < 60.
C20_RealizedTotal ==
  (GraphComplete /\ Style \notin {"scale", "typing"}) =>
    /\ \A k \in 1..Len(reactions) :
         RAdd(WaitMs(reactions[k]), TransitionMs(reactions[k]))
           = RMax(TimePerEdge, Num(60))
    /\ RGe(SumMs(reactions), Num(DurationMs))
    /\ RGt(SumMs(reactions), Num(DurationMs)) <=> RLt(TimePerEdge, Num(60))

C20_Witness ==
  /\ GraphComplete /\ Style = "fade-in" /\ TypeBy = "word" /\ DurationMs = 100
  /\ frameCount = 2 /\ Len(reactions) = 2 /\ SumMs(reactions) = Num(120)

\* C21: the two frame-text renderers agree on typing: for every text, unit,
\* direction and frame index, getFrameText returns the visible text that
\* applyTypingEffect gives the component frame.
C21_RenderersAgree ==
  (Accepted /\ Style = "typing") =>
    \A k \in 1..Len(variants) :
      getFrameText(Text, data.animation, k - 1, frameCount) = variants[k].characters

\* The messages posted for the e-th 'selectionchange' event.
PostedFor(e) == {k \in 1..Len(uiMessages) : uiMessages[k].event = e}

\* C22: in the figma editor, once the module has started, the selection
\* listener is registered exactly once and each selectionchange event results
\* in exactly one 'selection-changed' message to the UI.
C22_OneMessagePerEvent ==
  (editorType = "figma" /\ top = "ready") =>
    /\ Len(listeners) = 1
    /\ \A e \in 1..events : Cardinality(PostedFor(e)) = 1

=============================================================================
